---- MODULE Spec2Model ----
(***************************************************************************)
(* A model of the active-expiration cache: the fixed-bucket HashMap, the   *)
(* cacheEntry, the sampling cleaner (defaultClean), the locking facade     *)
(* (ActiveCache.Get / Set / performClean) and the cleaner's lifecycle      *)
(* (StartCleaner / StopCleaner).                                           *)
(***************************************************************************)
EXTENDS Integers, Sequences, FiniteSets, TLC

(***************************************************************************)
(* Program constants.                                                      *)
(***************************************************************************)
DefaultTableSize == 10

DefaultCleanerInterval == 200

DefaultKeysAmountByCycle == 20

ExpiredKeysPercentageTolerance == 25

MinCleanerInterval == 50

MinKeysAmountByCycle == 5

NoExpiration == 0

(***************************************************************************)
(* Bounds of the model.                                                    *)
(***************************************************************************)
\* number of distinct non-nil keys the callers use
NumKeys == 2

\* the clock runs from 1 to MaxTime
MaxTime == 2

\* width of the scaled-down signed integer that stands for int64
IntBits == 4

\* number of StartCleaner calls, the constructor's included
MaxStarts == 2

(***************************************************************************)
(* Values of the model.                                                    *)
(***************************************************************************)
NilKey == 0

NilValue == 0

Keys == 1..NumKeys

Values == {1, 2}

\* the largest time.Duration (the largest signed integer of the width)
MaxDuration == 2^(IntBits - 1) - 1

TTLs == {-1, 0, 1, MaxDuration}

\* maphash seeds: each process draws one, and it fixes the hash function
Seeds == {2, 3}

(***************************************************************************)
(* Signed integers of IntBits bits: what int64 arithmetic does on overflow.*)
(***************************************************************************)
WrapInt(x) == ((x + 2^(IntBits - 1)) % 2^IntBits) - 2^(IntBits - 1)

(***************************************************************************)
(* pkg/hashmap                                                             *)
(***************************************************************************)
\* maphash.Hash.Sum64 of key k under seed s. Seed 1 spreads the keys over
\* distinct buckets, seed 2 puts them all in one bucket with distinct
\* hashes, seed 3 makes keys 2i-1 and 2i collide on the whole 64-bit hash.
Sum64(s, k) ==
  CASE s = 1 -> k
    [] s = 2 -> DefaultTableSize * k + 1
    [] OTHER -> (k + 1) \div 2

BucketOf(h) == h % DefaultTableSize

EmptyData == [b \in 0..(DefaultTableSize - 1) |-> <<>>]

\* index of the first record of bucket whose HashKey is h, 0 when none
FindHash(bucket, h) ==
  IF \E i \in 1..Len(bucket) : bucket[i].HashKey = h
    THEN CHOOSE i \in 1..Len(bucket) :
           /\ bucket[i].HashKey = h
           /\ \A j \in 1..(i - 1) : bucket[j].HashKey # h
    ELSE 0

RemoveAt(bucket, i) ==
  SubSeq(bucket, 1, i - 1) \o SubSeq(bucket, i + 1, Len(bucket))

Delete(d, s, key) ==
  LET h == Sum64(s, key)
      b == BucketOf(h)
      i == FindHash(d[b], h)
  IN IF i = 0 THEN d ELSE [d EXCEPT ![b] = RemoveAt(d[b], i)]

HashMapGet(d, s, key) ==
  LET h == Sum64(s, key)
      b == BucketOf(h)
      i == FindHash(d[b], h)
  IN IF i = 0 THEN [ok |-> FALSE, Value |-> NilValue]
              ELSE [ok |-> TRUE, Value |-> d[b][i].Value]

RECURSIVE Flatten(_, _)
Flatten(d, b) ==
  IF b >= DefaultTableSize THEN <<>> ELSE d[b] \o Flatten(d, b + 1)

GetAll(d) == Flatten(d, 0)

PutAppend(d, s, key, value) ==
  LET h == Sum64(s, key)
      b == BucketOf(h)
  IN [d EXCEPT ![b] = Append(d[b], [HashKey |-> h, Key |-> key, Value |-> value])]

Put(d, s, key, value) ==
  LET h == Sum64(s, key)
      b == BucketOf(h)
      i == FindHash(d[b], h)
  IN IF i = 0
       THEN [d EXCEPT ![b] = Append(d[b], [HashKey |-> h, Key |-> key, Value |-> value])]
       ELSE [d EXCEPT ![b][i].Value = value]

(***************************************************************************)
(* cache/cache_entry.go                                                    *)
(***************************************************************************)
emptyValueTTL == [value |-> NilValue, ttl |-> 0]

IsExpiredNoSentinel(e, t) == t >= e.ExpiresAt

IsExpired(e, t) == NoExpiration # e.ExpiresAt /\ t >= e.ExpiresAt

GetValueTTL(e, t) ==
  IF IsExpired(e, t) THEN emptyValueTTL ELSE [value |-> e.Value, ttl |-> e.Ttl]

(***************************************************************************)
(* State.                                                                  *)
(***************************************************************************)
VARIABLES
  seed,              \* the seed of HashMap.hash, drawn once per process
  data,              \* HashMap.data: bucket -> sequence of records
  now,               \* the clock, time.Now().UnixNano()
  config,            \* ActiveCache.config
  mtx,               \* ActiveCache.mtx: who holds the lock
  isCleanerRunning,  \* ActiveCache.isCleanerRunning
  stopChan,          \* ActiveCache.stopChan: a channel, or NilChan
  closed,            \* the channels that have been closed
  panicked,          \* the process died of a run-time panic: nothing runs any more
  pc,                \* caller -> where the caller is in its call
  arg,               \* caller -> the call's arguments
  ret,               \* caller -> the call's result
  gpc,               \* cleaner goroutine -> where it is in StartCleaner's func
  sel,               \* cleaner goroutine -> the channel its select waits on
  timer,             \* cleaner goroutine -> its timer has not fired yet
  clean,             \* the frame of the running defaultClean
  lastSet,           \* history: key -> the last completed Set on that key
  calls              \* history: the StartCleaner / StopCleaner calls so far

vars ==
  <<seed, data, now, config, mtx, isCleanerRunning, stopChan, closed, panicked,
    pc, arg, ret, gpc, sel, timer, clean, lastSet, calls>>

Callers == {1, 2}

Cleaners == 1..MaxStarts

NilChan == 0

Free == <<"free", 0>>

NoArg == [op |-> "none", key |-> NilKey, value |-> NilValue, ttl |-> 0]

NoRet == [value |-> NilValue, ttl |-> -1]

NoSet == [value |-> NilValue, ttl |-> 0, at |-> 0]

NoClean ==
  [st |-> "off", entries |-> <<>>, sampleSize |-> 0, checked |-> {},
   deleted |-> 0, start |-> 0, passes |-> 0, before |-> <<>>, over |-> FALSE]

DefaultConfig ==
  [CleanerInterval |-> DefaultCleanerInterval,
   KeysAmountByCycle |-> DefaultKeysAmountByCycle]

Min(a, b) == IF a < b THEN a ELSE b

dataVars == <<seed, data, now, config, lastSet>>

lifeVars == <<isCleanerRunning, stopChan, closed, panicked, gpc, sel, timer>>

callVars == <<pc, arg, ret>>

(***************************************************************************)
(* The state after NewActiveCache: an empty table, and the goroutine of    *)
(* the constructor's StartCleaner spawned but not yet run.                 *)
(***************************************************************************)
InitCommon ==
  /\ data = EmptyData
  /\ now = 1
  /\ config = DefaultConfig
  /\ mtx = Free
  /\ isCleanerRunning = FALSE
  /\ stopChan = NilChan
  /\ closed = {}
  /\ panicked = FALSE
  /\ pc = [c \in Callers |-> "idle"]
  /\ arg = [c \in Callers |-> NoArg]
  /\ ret = [c \in Callers |-> NoRet]
  /\ gpc = [g \in Cleaners |-> IF g = 1 THEN "check" ELSE "none"]
  /\ sel = [g \in Cleaners |-> NilChan]
  /\ timer = [g \in Cleaners |-> FALSE]
  /\ clean = NoClean
  /\ lastSet = [k \in Keys |-> NoSet]
  /\ calls = "none"

Init ==
  /\ seed \in Seeds
  /\ InitCommon

(***************************************************************************)
(* The clock.                                                              *)
(***************************************************************************)
Tick ==
  /\ ~panicked
  /\ now < MaxTime
  /\ now' = now + 1
  /\ UNCHANGED <<seed, data, config, mtx, lastSet, clean>>
  /\ UNCHANGED lifeVars
  /\ UNCHANGED callVars
  /\ UNCHANGED calls

(***************************************************************************)
(* ActiveCache.Get                                                         *)
(***************************************************************************)
GetEnterNoNilCheck(c, key) ==
  /\ ~panicked
  /\ pc[c] = "idle"
  /\ arg' = [arg EXCEPT ![c] = [op |-> "Get", key |-> key, value |-> NilValue, ttl |-> 0]]
  /\ pc' = [pc EXCEPT ![c] = "lock"]
  /\ ret' = [ret EXCEPT ![c] = NoRet]
  /\ UNCHANGED <<mtx, clean>>
  /\ UNCHANGED dataVars
  /\ UNCHANGED lifeVars
  /\ UNCHANGED calls

\* lines 110-112: a nil key returns at once; otherwise go for the lock
GetEnter(c, key) ==
  /\ ~panicked
  /\ pc[c] = "idle"
  /\ arg' = [arg EXCEPT ![c] = [op |-> "Get", key |-> key, value |-> NilValue, ttl |-> 0]]
  /\ IF key = NilKey
       THEN /\ pc' = [pc EXCEPT ![c] = "ret"]
            /\ ret' = [ret EXCEPT ![c] = emptyValueTTL]
       ELSE /\ pc' = [pc EXCEPT ![c] = "lock"]
            /\ ret' = [ret EXCEPT ![c] = NoRet]
  /\ UNCHANGED <<mtx, clean>>
  /\ UNCHANGED dataVars
  /\ UNCHANGED lifeVars
  /\ UNCHANGED calls

LockNoWait(c) ==
  /\ ~panicked
  /\ pc[c] = "lock"
  /\ mtx' = <<"caller", c>>
  /\ pc' = [pc EXCEPT ![c] = "body"]
  /\ UNCHANGED <<arg, ret, clean, calls>>
  /\ UNCHANGED dataVars
  /\ UNCHANGED lifeVars

\* c.mtx.Lock() of Get and of Set
Lock(c) ==
  /\ ~panicked
  /\ pc[c] = "lock"
  /\ mtx = Free
  /\ mtx' = <<"caller", c>>
  /\ pc' = [pc EXCEPT ![c] = "body"]
  /\ UNCHANGED <<arg, ret, clean>>
  /\ UNCHANGED dataVars
  /\ UNCHANGED lifeVars
  /\ UNCHANGED calls

\* lines 118-122: what Get returns for a non-nil key at time t
CacheGet(d, s, t, key) ==
  LET r == HashMapGet(d, s, key)
  IN IF r.ok THEN GetValueTTL(r.Value, t) ELSE emptyValueTTL

\* lines 118-122 and the deferred Unlock
GetBody(c) ==
  /\ ~panicked
  /\ pc[c] = "body"
  /\ arg[c].op = "Get"
  /\ ret' = [ret EXCEPT ![c] = CacheGet(data, seed, now, arg[c].key)]
  /\ mtx' = Free
  /\ pc' = [pc EXCEPT ![c] = "ret"]
  /\ UNCHANGED <<seed, data, now, config, lastSet, arg, clean>>
  /\ UNCHANGED lifeVars
  /\ UNCHANGED calls

(***************************************************************************)
(* ActiveCache.Set                                                         *)
(***************************************************************************)
SetEnter(c, key, value, ttl) ==
  /\ ~panicked
  /\ pc[c] = "idle"
  /\ arg' = [arg EXCEPT ![c] = [op |-> "Set", key |-> key, value |-> value, ttl |-> ttl]]
  /\ pc' = [pc EXCEPT ![c] = IF key = NilKey THEN "ret" ELSE "lock"]
  /\ ret' = [ret EXCEPT ![c] = NoRet]
  /\ UNCHANGED <<mtx, clean>>
  /\ UNCHANGED dataVars
  /\ UNCHANGED lifeVars
  /\ UNCHANGED calls

\* time.Now().Add(ttl).UnixNano(): the sum in the integer's width
ExpiresAtOf(t, ttl) ==
  IF ttl > NoExpiration THEN WrapInt(t + ttl) ELSE 0

\* history: the Set(key, value, ttl) completes now
TrackSet(key, value, ttl) ==
  lastSet' = IF key = NilKey
               THEN lastSet
               ELSE [lastSet EXCEPT ![key] = [value |-> value, ttl |-> ttl, at |-> now]]

SetStoreAlways(d, s, t, a) ==
  Put(d, s, a.key,
      [Value |-> a.value, Ttl |-> a.ttl, ExpiresAt |-> ExpiresAtOf(t, a.ttl)])

\* lines 149-164: the table after Set(a.key, a.value, a.ttl) at time t
SetStore(d, s, t, a) ==
  IF a.ttl < NoExpiration
    THEN Delete(d, s, a.key)
    ELSE Put(d, s, a.key,
             [Value |-> a.value, Ttl |-> a.ttl, ExpiresAt |-> ExpiresAtOf(t, a.ttl)])

SetBody(c) ==
  /\ ~panicked
  /\ pc[c] = "body"
  /\ arg[c].op = "Set"
  /\ data' = SetStore(data, seed, now, arg[c])
  /\ mtx' = Free
  /\ pc' = [pc EXCEPT ![c] = "ret"]
  /\ UNCHANGED <<seed, now, config, arg, ret, clean>>
  /\ UNCHANGED lifeVars
  /\ UNCHANGED calls

\* the call has returned to the caller
Return(c) ==
  /\ ~panicked
  /\ pc[c] = "ret"
  /\ pc' = [pc EXCEPT ![c] = "idle"]
  /\ arg' = [arg EXCEPT ![c] = NoArg]
  /\ ret' = [ret EXCEPT ![c] = NoRet]
  /\ UNCHANGED <<mtx, clean>>
  /\ UNCHANGED dataVars
  /\ UNCHANGED lifeVars
  /\ UNCHANGED calls

(***************************************************************************)
(* Get and Set as one step each: the whole call, from the nil check to the *)
(* deferred Unlock. A call on a non-nil key needs the lock to be free.     *)
(***************************************************************************)
\* what Get(key) returns when it runs at time t on table d
GetReturns(d, s, t, key) ==
  IF key = NilKey THEN emptyValueTTL ELSE CacheGet(d, s, t, key)

\* the table after Set(key, value, ttl) at time t on table d
SetLeaves(d, s, t, key, value, ttl) ==
  IF key = NilKey
    THEN d
    ELSE SetStore(d, s, t, [op |-> "Set", key |-> key, value |-> value, ttl |-> ttl])

Get(key) ==
  /\ ~panicked
  /\ key # NilKey => mtx = Free
  /\ UNCHANGED <<mtx, clean>>
  /\ UNCHANGED dataVars
  /\ UNCHANGED lifeVars
  /\ UNCHANGED callVars
  /\ UNCHANGED calls

Set(key, value, ttl) ==
  /\ ~panicked
  /\ key # NilKey => mtx = Free
  /\ data' = SetLeaves(data, seed, now, key, value, ttl)
  /\ UNCHANGED <<seed, now, config, mtx, clean>>
  /\ UNCHANGED lifeVars
  /\ UNCHANGED callVars
  /\ UNCHANGED calls

(***************************************************************************)
(* defaultClean. The frame `clean` holds the locals of the pass that is    *)
(* running: the snapshot `entries`, the sample size, the indices of the    *)
(* permutation's prefix inspected so far and the deleted counter; `start`, *)
(* `before`, `over` and `passes` are history (the clock and the snapshot   *)
(* at the invocation, whether the first pass exceeded the tolerance, the   *)
(* number of passes entered).                                              *)
(***************************************************************************)
PassOfShort(d, cfg) ==
  [entries |-> GetAll(d),
   sampleSize |-> IF GetAll(d) = <<>>
                    THEN 0
                    ELSE Min(cfg.KeysAmountByCycle, Len(GetAll(d)) - 1)]

\* lines 85-91: the locals at the start of a pass over table d
PassOf(d, cfg) ==
  [entries |-> GetAll(d),
   sampleSize |-> Min(cfg.KeysAmountByCycle, Len(GetAll(d)))]

\* line 101: the expired percentage of the finished pass
Percentage(f) == (f.deleted * 100) \div f.sampleSize

PassDone(f) == Cardinality(f.checked) = f.sampleSize

RecursesAtOrAbove(f) ==
  /\ f.st = "pass"
  /\ f.sampleSize > 0
  /\ PassDone(f)
  /\ Percentage(f) >= ExpiredKeysPercentageTolerance

RecursesAlways(f) ==
  /\ f.st = "pass"
  /\ f.sampleSize > 0
  /\ PassDone(f)

\* lines 101-103: the pass is over and defaultClean calls itself again
Recurses(f) ==
  /\ f.st = "pass"
  /\ f.sampleSize > 0
  /\ PassDone(f)
  /\ Percentage(f) > ExpiredKeysPercentageTolerance

\* lines 89-91 and 101-104: defaultClean returns
Returns(f) ==
  /\ f.st = "pass"
  /\ \/ f.sampleSize = 0
     \/ PassDone(f) /\ ~Recurses(f)

\* the frame of the first pass of an invocation at time t on table d
FirstPass(d, cfg, t) ==
  [st |-> "pass", entries |-> PassOf(d, cfg).entries,
   sampleSize |-> PassOf(d, cfg).sampleSize, checked |-> {}, deleted |-> 0,
   start |-> t, passes |-> 1, before |-> GetAll(d), over |-> FALSE]

\* lines 93-99, one iteration: index i of the permutation's prefix
CleanInspectAgain(i) ==
  /\ ~panicked
  /\ clean.st = "pass"
  /\ ~PassDone(clean)
  /\ i \in 1..Len(clean.entries)
  /\ IF IsExpired(clean.entries[i].Value, now)
       THEN /\ data' = Delete(data, seed, clean.entries[i].Key)
            /\ clean' = [clean EXCEPT !.checked = @ \cup {i}, !.deleted = @ + 1]
       ELSE /\ data' = data
            /\ clean' = [clean EXCEPT !.checked = @ \cup {i}]
  /\ UNCHANGED <<seed, now, config, mtx, lastSet>>
  /\ UNCHANGED lifeVars
  /\ UNCHANGED callVars
  /\ UNCHANGED calls

CleanInspect(i) ==
  /\ ~panicked
  /\ clean.st = "pass"
  /\ ~PassDone(clean)
  /\ i \in (1..Len(clean.entries)) \ clean.checked
  /\ IF IsExpired(clean.entries[i].Value, now)
       THEN /\ data' = Delete(data, seed, clean.entries[i].Key)
            /\ clean' = [clean EXCEPT !.checked = @ \cup {i}, !.deleted = @ + 1]
       ELSE /\ data' = data
            /\ clean' = [clean EXCEPT !.checked = @ \cup {i}]
  /\ UNCHANGED <<seed, now, config, mtx, lastSet>>
  /\ UNCHANGED lifeVars
  /\ UNCHANGED callVars
  /\ UNCHANGED calls

CleanRecurseUnlocked ==
  /\ ~panicked
  /\ Recurses(clean)
  /\ clean' = [clean EXCEPT !.entries = PassOf(data, config).entries,
                            !.sampleSize = PassOf(data, config).sampleSize,
                            !.checked = {}, !.deleted = 0,
                            !.passes = @ + 1,
                            !.over = IF clean.passes = 1 THEN TRUE ELSE @]
  /\ mtx' = Free
  /\ UNCHANGED <<seed, data, now, config, lastSet>>
  /\ UNCHANGED lifeVars
  /\ UNCHANGED callVars
  /\ UNCHANGED calls

\* line 102: the recursive call, which starts the next pass
CleanRecurse ==
  /\ ~panicked
  /\ Recurses(clean)
  /\ clean' = [clean EXCEPT !.entries = PassOf(data, config).entries,
                            !.sampleSize = PassOf(data, config).sampleSize,
                            !.checked = {}, !.deleted = 0,
                            !.passes = @ + 1,
                            !.over = IF clean.passes = 1 THEN TRUE ELSE @]
  /\ UNCHANGED <<seed, data, now, config, mtx, lastSet>>
  /\ UNCHANGED lifeVars
  /\ UNCHANGED callVars
  /\ UNCHANGED calls

(***************************************************************************)
(* IsCleanerRunning, line 127: one atomic load, no lock.                   *)
(***************************************************************************)
IsCleanerRunning(c) ==
  /\ ~panicked
  /\ pc[c] = "idle"
  /\ arg' = [arg EXCEPT ![c] = [NoArg EXCEPT !.op = "IsCleanerRunning"]]
  /\ ret' = [ret EXCEPT ![c] = [running |-> isCleanerRunning]]
  /\ pc' = [pc EXCEPT ![c] = "ret"]
  /\ UNCHANGED <<mtx, clean, calls>>
  /\ UNCHANGED dataVars
  /\ UNCHANGED lifeVars

(***************************************************************************)
(* StartCleaner: the call spawns a goroutine, which runs lines 171-185.    *)
(***************************************************************************)
NextCleaner ==
  IF \E g \in Cleaners : gpc[g] = "none"
    THEN CHOOSE g \in Cleaners :
           gpc[g] = "none" /\ \A h \in Cleaners : gpc[h] = "none" => g <= h
    ELSE 0

\* line 170: go func(); the call itself returns at once
StartCleaner(c) ==
  /\ ~panicked
  /\ pc[c] = "idle"
  /\ NextCleaner # 0
  /\ gpc' = [gpc EXCEPT ![NextCleaner] = "check"]
  /\ UNCHANGED <<isCleanerRunning, stopChan, closed, panicked, sel, timer>>
  /\ UNCHANGED <<mtx, clean>>
  /\ UNCHANGED dataVars
  /\ UNCHANGED callVars
  /\ calls' = IF calls \in {"stop", "signal"} THEN "restart" ELSE calls

\* line 171: if !c.isCleanerRunning.Load()
GoCheck(g) ==
  /\ ~panicked
  /\ gpc[g] = "check"
  /\ gpc' = [gpc EXCEPT ![g] = IF isCleanerRunning THEN "done" ELSE "make"]
  /\ UNCHANGED <<isCleanerRunning, stopChan, closed, panicked, sel, timer>>
  /\ UNCHANGED <<mtx, clean>>
  /\ UNCHANGED dataVars
  /\ UNCHANGED callVars
  /\ UNCHANGED calls

\* line 172: c.stopChan = make(chan interface{}); goroutine g makes channel g
GoMake(g) ==
  /\ ~panicked
  /\ gpc[g] = "make"
  /\ stopChan' = g
  /\ gpc' = [gpc EXCEPT ![g] = "store"]
  /\ UNCHANGED <<isCleanerRunning, closed, panicked, sel, timer>>
  /\ UNCHANGED <<mtx, clean>>
  /\ UNCHANGED dataVars
  /\ UNCHANGED callVars
  /\ UNCHANGED calls

\* lines 173-175: c.isCleanerRunning.Store(true); timer := time.NewTimer(...)
GoStore(g) ==
  /\ ~panicked
  /\ gpc[g] = "store"
  /\ isCleanerRunning' = TRUE
  /\ timer' = [timer EXCEPT ![g] = TRUE]
  /\ gpc' = [gpc EXCEPT ![g] = "select"]
  /\ UNCHANGED <<stopChan, closed, panicked, sel>>
  /\ UNCHANGED <<mtx, clean>>
  /\ UNCHANGED dataVars
  /\ UNCHANGED callVars
  /\ UNCHANGED calls

\* lines 177-178: entering select evaluates the channel operand c.stopChan
GoSelect(g) ==
  /\ ~panicked
  /\ gpc[g] = "select"
  /\ sel' = [sel EXCEPT ![g] = stopChan]
  /\ gpc' = [gpc EXCEPT ![g] = "wait"]
  /\ UNCHANGED <<isCleanerRunning, stopChan, closed, panicked, timer>>
  /\ UNCHANGED <<mtx, clean>>
  /\ UNCHANGED dataVars
  /\ UNCHANGED callVars
  /\ UNCHANGED calls

\* lines 178-180: the channel waited on is closed
GoStopped(g) ==
  /\ ~panicked
  /\ gpc[g] = "wait"
  /\ sel[g] \in closed
  /\ isCleanerRunning' = FALSE
  /\ gpc' = [gpc EXCEPT ![g] = "done"]
  /\ UNCHANGED <<stopChan, closed, panicked, sel, timer>>
  /\ UNCHANGED <<mtx, clean>>
  /\ UNCHANGED dataVars
  /\ UNCHANGED callVars
  /\ UNCHANGED calls

\* lines 181-182: the timer fires (it is never reset, so it fires once) and
\* the goroutine calls performClean
GoTimer(g) ==
  /\ ~panicked
  /\ gpc[g] = "wait"
  /\ timer[g]
  /\ timer' = [timer EXCEPT ![g] = FALSE]
  /\ gpc' = [gpc EXCEPT ![g] = "cleanlock"]
  /\ UNCHANGED <<isCleanerRunning, stopChan, closed, panicked, sel>>
  /\ UNCHANGED <<mtx, clean>>
  /\ UNCHANGED dataVars
  /\ UNCHANGED callVars
  /\ UNCHANGED calls

\* performClean, lines 132-135: c.mtx.Lock() and the call of c.cleanFunc
CleanLock(g) ==
  /\ ~panicked
  /\ gpc[g] = "cleanlock"
  /\ mtx = Free
  /\ mtx' = <<"cleaner", g>>
  /\ gpc' = [gpc EXCEPT ![g] = "clean"]
  /\ clean' = FirstPass(data, config, now)
  /\ UNCHANGED <<isCleanerRunning, stopChan, closed, panicked, sel, timer>>
  /\ UNCHANGED dataVars
  /\ UNCHANGED callVars
  /\ UNCHANGED calls

\* performClean: c.cleanFunc has returned; the deferred Unlock
CleanUnlock(g) ==
  /\ ~panicked
  /\ gpc[g] = "clean"
  /\ Returns(clean)
  /\ mtx' = Free
  /\ clean' = NoClean
  /\ gpc' = [gpc EXCEPT ![g] = "select"]
  /\ UNCHANGED <<isCleanerRunning, stopChan, closed, panicked, sel, timer>>
  /\ UNCHANGED dataVars
  /\ UNCHANGED callVars
  /\ UNCHANGED calls

(***************************************************************************)
(* StopCleaner, lines 191-193: the load, then the close.                   *)
(***************************************************************************)
StopLoad(c) ==
  /\ ~panicked
  /\ pc[c] = "idle"
  /\ pc' = [pc EXCEPT ![c] = IF isCleanerRunning THEN "close" ELSE "idle"]
  /\ arg' = [arg EXCEPT ![c] = IF isCleanerRunning
                                 THEN [NoArg EXCEPT !.op = "Stop"] ELSE NoArg]
  /\ UNCHANGED <<ret, mtx, clean>>
  /\ UNCHANGED dataVars
  /\ UNCHANGED lifeVars
  /\ calls' = IF isCleanerRunning \/ calls = "signal" THEN calls ELSE "stop"

\* close(c.stopChan): closing a nil or a closed channel panics
StopClose(c) ==
  /\ ~panicked
  /\ pc[c] = "close"
  /\ IF stopChan = NilChan \/ stopChan \in closed
       THEN /\ panicked' = TRUE
            /\ closed' = closed
       ELSE /\ panicked' = FALSE
            /\ closed' = closed \cup {stopChan}
  /\ pc' = [pc EXCEPT ![c] =
              IF stopChan = NilChan \/ stopChan \in closed THEN "panic" ELSE "idle"]
  /\ arg' = [arg EXCEPT ![c] = NoArg]
  /\ UNCHANGED <<isCleanerRunning, stopChan, gpc, sel, timer>>
  /\ UNCHANGED <<ret, mtx, clean>>
  /\ UNCHANGED dataVars
  /\ calls' = IF stopChan = NilChan \/ stopChan \in closed THEN calls ELSE "signal"

(***************************************************************************)
(* The cache under sequential use: Get and Set on every key, value and     *)
(* TTL, the clock, and the cleaner the constructor started.                *)
(***************************************************************************)
Next ==
  \/ Tick
  \/ \E k \in Keys \cup {NilKey} : Get(k)
  \/ \E k \in Keys \cup {NilKey}, v \in Values, t \in TTLs :
       Set(k, v, t) /\ UNCHANGED lastSet
  \/ \E g \in Cleaners : GoCheck(g)
  \/ \E g \in Cleaners : GoMake(g)
  \/ \E g \in Cleaners : GoStore(g)
  \/ \E g \in Cleaners : GoSelect(g)
  \/ \E g \in Cleaners : GoTimer(g)
  \/ \E g \in Cleaners : CleanLock(g)
  \/ \E i \in 1..NumKeys : CleanInspect(i)
  \/ CleanRecurse
  \/ \E g \in Cleaners : CleanUnlock(g)

Spec == Init /\ [][Next]_vars

(***************************************************************************)
(* The same, with the history of the last Set completed on each key.       *)
(***************************************************************************)
NextHist ==
  \/ Tick
  \/ \E k \in Keys \cup {NilKey} : Get(k)
  \/ \E k \in Keys \cup {NilKey}, v \in Values, t \in TTLs :
       Set(k, v, t) /\ TrackSet(k, v, t)
  \/ \E g \in Cleaners : GoCheck(g)
  \/ \E g \in Cleaners : GoMake(g)
  \/ \E g \in Cleaners : GoStore(g)
  \/ \E g \in Cleaners : GoSelect(g)
  \/ \E g \in Cleaners : GoTimer(g)
  \/ \E g \in Cleaners : CleanLock(g)
  \/ \E i \in 1..NumKeys : CleanInspect(i)
  \/ CleanRecurse
  \/ \E g \in Cleaners : CleanUnlock(g)

SpecHist == Init /\ [][NextHist]_vars

(***************************************************************************)
(* The cache under concurrent calls: two callers, each Get and Set in its  *)
(* steps (the nil check, the Lock, the body with the deferred Unlock, the  *)
(* return), next to the cleaner the constructor started.                   *)
(***************************************************************************)
CallKeys == {NilKey, 1}

CallValues == {1}

CallTTLs == {-1, 0, 1}

NextCall ==
  \/ Tick
  \/ \E c \in Callers, k \in CallKeys : GetEnter(c, k)
  \/ \E c \in Callers, k \in CallKeys, v \in CallValues, t \in CallTTLs :
       SetEnter(c, k, v, t)
  \/ \E c \in Callers : Lock(c)
  \/ \E c \in Callers : GetBody(c)
  \/ \E c \in Callers : SetBody(c) /\ UNCHANGED lastSet
  \/ \E c \in Callers : Return(c)
  \/ \E g \in Cleaners : GoCheck(g)
  \/ \E g \in Cleaners : GoMake(g)
  \/ \E g \in Cleaners : GoStore(g)
  \/ \E g \in Cleaners : GoSelect(g)
  \/ \E g \in Cleaners : GoTimer(g)
  \/ \E g \in Cleaners : CleanLock(g)
  \/ \E i \in 1..NumKeys : CleanInspect(i)
  \/ CleanRecurse
  \/ \E g \in Cleaners : CleanUnlock(g)

SpecCall == Init /\ [][NextCall]_vars

(***************************************************************************)
(* The cleaner's life cycle: StartCleaner and StopCleaner calls from two   *)
(* callers, the goroutines they start and stop, and Set calls that give    *)
(* the cleaner entries to inspect.                                         *)
(***************************************************************************)
NextLife ==
  \/ Tick
  \/ \E t \in CallTTLs : Set(1, 1, t) /\ UNCHANGED lastSet
  \/ \E c \in Callers : StartCleaner(c)
  \/ \E c \in Callers : StopLoad(c)
  \/ \E c \in Callers : StopClose(c)
  \/ \E g \in Cleaners : GoCheck(g)
  \/ \E g \in Cleaners : GoMake(g)
  \/ \E g \in Cleaners : GoStore(g)
  \/ \E g \in Cleaners : GoSelect(g)
  \/ \E g \in Cleaners : GoStopped(g)
  \/ \E g \in Cleaners : GoTimer(g)
  \/ \E g \in Cleaners : CleanLock(g)
  \/ \E i \in 1..NumKeys : CleanInspect(i)
  \/ CleanRecurse
  \/ \E g \in Cleaners : CleanUnlock(g)

SpecLife == Init /\ [][NextLife]_vars

(***************************************************************************)
(* The life cycle under fair scheduling: a goroutine that can take its     *)
(* next step eventually takes it, and a StopCleaner call that has loaded   *)
(* the flag goes on to its close.                                          *)
(***************************************************************************)
FairLife ==
  /\ \A g \in Cleaners :
       /\ WF_vars(GoCheck(g))
       /\ WF_vars(GoMake(g))
       /\ WF_vars(GoStore(g))
       /\ WF_vars(GoSelect(g))
       /\ WF_vars(GoStopped(g))
       /\ WF_vars(GoTimer(g))
       /\ WF_vars(CleanLock(g))
       /\ WF_vars(CleanUnlock(g))
  /\ WF_vars(\E i \in 1..NumKeys : CleanInspect(i))
  /\ WF_vars(CleanRecurse)
  /\ \A c \in Callers : WF_vars(StopClose(c))

SpecLifeFair == Init /\ [][NextLife]_vars /\ FairLife

(***************************************************************************)
(* The lock: two callers that run Get and Set in their steps on one key    *)
(* and call StartCleaner, next to the cleaner loops.                       *)
(***************************************************************************)
NextLock ==
  \/ Tick
  \/ \E c \in Callers : GetEnter(c, 1)
  \/ \E c \in Callers : SetEnter(c, 1, 1, 1)
  \/ \E c \in Callers : Lock(c)
  \/ \E c \in Callers : GetBody(c)
  \/ \E c \in Callers : SetBody(c) /\ UNCHANGED lastSet
  \/ \E c \in Callers : Return(c)
  \/ \E c \in Callers : StartCleaner(c)
  \/ \E g \in Cleaners : GoCheck(g)
  \/ \E g \in Cleaners : GoMake(g)
  \/ \E g \in Cleaners : GoStore(g)
  \/ \E g \in Cleaners : GoSelect(g)
  \/ \E g \in Cleaners : GoTimer(g)
  \/ \E g \in Cleaners : CleanLock(g)
  \/ \E i \in 1..NumKeys : CleanInspect(i)
  \/ CleanRecurse
  \/ \E g \in Cleaners : CleanUnlock(g)

SpecLock == Init /\ [][NextLock]_vars

(***************************************************************************)
(* Everything at once: two callers that run Get, Set, IsCleanerRunning,    *)
(* StartCleaner and StopCleaner in their steps on one key, and the cleaner *)
(* goroutines.                                                             *)
(***************************************************************************)
NextConc ==
  \/ Tick
  \/ \E c \in Callers : GetEnter(c, 1)
  \/ \E c \in Callers : SetEnter(c, 1, 1, 1)
  \/ \E c \in Callers : Lock(c)
  \/ \E c \in Callers : GetBody(c)
  \/ \E c \in Callers : SetBody(c) /\ UNCHANGED lastSet
  \/ \E c \in Callers : Return(c)
  \/ \E c \in Callers : IsCleanerRunning(c)
  \/ \E c \in Callers : StartCleaner(c)
  \/ \E c \in Callers : StopLoad(c)
  \/ \E c \in Callers : StopClose(c)
  \/ \E g \in Cleaners : GoCheck(g)
  \/ \E g \in Cleaners : GoMake(g)
  \/ \E g \in Cleaners : GoStore(g)
  \/ \E g \in Cleaners : GoSelect(g)
  \/ \E g \in Cleaners : GoStopped(g)
  \/ \E g \in Cleaners : GoTimer(g)
  \/ \E g \in Cleaners : CleanLock(g)
  \/ \E i \in 1..NumKeys : CleanInspect(i)
  \/ CleanRecurse
  \/ \E g \in Cleaners : CleanUnlock(g)

SpecConc == Init /\ [][NextConc]_vars

(***************************************************************************)
(* The same under fair scheduling: a goroutine or a caller that can take   *)
(* its next step eventually takes it; a Lock that is free again and again  *)
(* is eventually granted to each waiter (sync.Mutex hands the lock to a    *)
(* waiter that has starved).                                               *)
(***************************************************************************)
FairConc ==
  /\ \A g \in Cleaners :
       /\ WF_vars(GoCheck(g))
       /\ WF_vars(GoMake(g))
       /\ WF_vars(GoStore(g))
       /\ WF_vars(GoSelect(g))
       /\ WF_vars(GoStopped(g))
       /\ WF_vars(GoTimer(g))
       /\ SF_vars(CleanLock(g))
       /\ WF_vars(CleanUnlock(g))
  /\ WF_vars(\E i \in 1..NumKeys : CleanInspect(i))
  /\ WF_vars(CleanRecurse)
  /\ \A c \in Callers :
       /\ SF_vars(Lock(c))
       /\ WF_vars(GetBody(c))
       /\ WF_vars(SetBody(c) /\ UNCHANGED lastSet)
       /\ WF_vars(Return(c))
       /\ WF_vars(StopClose(c))

SpecConcFair == Init /\ [][NextConc]_vars /\ FairConc

(***************************************************************************)
(* The construction: NewActiveCacheWithConfig on every config of a grid of *)
(* intervals and sample sizes around the minima and the defaults, and on   *)
(* no config (nil). Before the construction `config` holds the argument.   *)
(***************************************************************************)
NilConfig == [nil |-> TRUE]

ConfigIntervals == {-1, 0, 1, 49, 50, 51, 199, 200, 201, 1000}

ConfigAmounts == {-1, 0, 1, 4, 5, 6, 19, 20, 21, 100}

validateAndAdjustBoth(conf) ==
  IF conf.CleanerInterval < MinCleanerInterval
       \/ conf.KeysAmountByCycle < MinKeysAmountByCycle
    THEN DefaultConfig
    ELSE conf

\* lines 199-207
validateAndAdjustConfig(conf) ==
  [CleanerInterval |->
     IF conf.CleanerInterval < MinCleanerInterval
       THEN DefaultCleanerInterval ELSE conf.CleanerInterval,
   KeysAmountByCycle |->
     IF conf.KeysAmountByCycle < MinKeysAmountByCycle
       THEN DefaultKeysAmountByCycle ELSE conf.KeysAmountByCycle]

\* lines 59-63: the config the constructed cache holds
ConfigOf(conf) ==
  IF conf = NilConfig THEN DefaultConfig ELSE validateAndAdjustConfig(conf)

InitConfig ==
  /\ seed \in Seeds
  /\ config \in {NilConfig}
       \cup [CleanerInterval : ConfigIntervals, KeysAmountByCycle : ConfigAmounts]
  /\ data = EmptyData
  /\ now = 1
  /\ mtx = Free
  /\ isCleanerRunning = FALSE
  /\ stopChan = NilChan
  /\ closed = {}
  /\ panicked = FALSE
  /\ pc = [c \in Callers |-> "idle"]
  /\ arg = [c \in Callers |-> NoArg]
  /\ ret = [c \in Callers |-> NoRet]
  /\ gpc = [g \in Cleaners |-> "none"]
  /\ sel = [g \in Cleaners |-> NilChan]
  /\ timer = [g \in Cleaners |-> FALSE]
  /\ clean = NoClean
  /\ lastSet = [k \in Keys |-> NoSet]
  /\ calls = "none"

\* lines 58-73: the config is fixed and the constructor's StartCleaner
\* spawns the first goroutine
NewActiveCacheWithConfig ==
  /\ \A g \in Cleaners : gpc[g] = "none"
  /\ config' = ConfigOf(config)
  /\ gpc' = [gpc EXCEPT ![1] = "check"]
  /\ UNCHANGED <<seed, data, now, mtx, isCleanerRunning, stopChan, closed,
                 panicked, pc, arg, ret, sel, timer, clean, lastSet, calls>>

NextConfig ==
  \/ NewActiveCacheWithConfig
  \/ \E g \in Cleaners : GoCheck(g)

SpecConfig == InitConfig /\ [][NextConfig]_vars

(***************************************************************************)
(* The sampler on a table of its own: the cache holds up to CleanRecords   *)
(* records when the cleaner's timer fires - some already expired, some     *)
(* that never expire, some that expire at the next tick - and the cycle    *)
(* samples MinKeysAmountByCycle of them per pass, the smallest sample size *)
(* validateAndAdjustConfig lets through. The keys hash to distinct buckets.*)
(***************************************************************************)
CleanRecords == MinKeysAmountByCycle + 3

\* the record that key k holds: of the keys 1..n, the first a have expired,
\* the next b never expire, the others expire at time 2
EntryOfKey(k, a, b) ==
  IF k <= a THEN [Value |-> 1, Ttl |-> 1, ExpiresAt |-> 1]
  ELSE IF k <= a + b THEN [Value |-> 2, Ttl |-> NoExpiration, ExpiresAt |-> NoExpiration]
  ELSE [Value |-> 1, Ttl |-> 1, ExpiresAt |-> 2]

RECURSIVE Filled(_, _, _, _)
Filled(n, a, b, s) ==
  IF n = 0 THEN EmptyData ELSE Put(Filled(n - 1, a, b, s), s, n, EntryOfKey(n, a, b))

InitClean ==
  /\ seed = 1
  /\ \E a \in 0..CleanRecords, b \in 0..CleanRecords, c \in 0..CleanRecords :
       /\ a + b + c <= CleanRecords
       /\ data = Filled(a + b + c, a, b, 1)
  /\ now = 1
  /\ config = [CleanerInterval |-> 200, KeysAmountByCycle |-> MinKeysAmountByCycle]
  /\ mtx = Free
  /\ isCleanerRunning = FALSE
  /\ stopChan = NilChan
  /\ closed = {}
  /\ panicked = FALSE
  /\ pc = [c \in Callers |-> "idle"]
  /\ arg = [c \in Callers |-> NoArg]
  /\ ret = [c \in Callers |-> NoRet]
  /\ gpc = [g \in Cleaners |-> IF g = 1 THEN "check" ELSE "none"]
  /\ sel = [g \in Cleaners |-> NilChan]
  /\ timer = [g \in Cleaners |-> FALSE]
  /\ clean = NoClean
  /\ lastSet = [k \in Keys |-> NoSet]
  /\ calls = "none"

NextClean ==
  \/ Tick
  \/ \E g \in Cleaners : GoCheck(g)
  \/ \E g \in Cleaners : GoMake(g)
  \/ \E g \in Cleaners : GoStore(g)
  \/ \E g \in Cleaners : GoSelect(g)
  \/ \E g \in Cleaners : GoTimer(g)
  \/ \E g \in Cleaners : CleanLock(g)
  \/ \E i \in 1..CleanRecords : CleanInspect(i)
  \/ CleanRecurse
  \/ \E g \in Cleaners : CleanUnlock(g)

SpecClean == InitClean /\ [][NextClean]_vars

(***************************************************************************)
(* Reads next to writes: two callers that run Get and Set in their steps   *)
(* on two keys and the nil key, under the seeds with and without a hash    *)
(* collision, next to the cleaner the constructor started.                 *)
(***************************************************************************)
NextRead ==
  \/ Tick
  \/ \E c \in Callers, k \in Keys \cup {NilKey} : GetEnter(c, k)
  \/ \E c \in Callers, k \in Keys, t \in CallTTLs : SetEnter(c, k, 1, t)
  \/ \E c \in Callers : Lock(c)
  \/ \E c \in Callers : GetBody(c)
  \/ \E c \in Callers : SetBody(c) /\ UNCHANGED lastSet
  \/ \E c \in Callers : Return(c)
  \/ \E g \in Cleaners : GoCheck(g)
  \/ \E g \in Cleaners : GoMake(g)
  \/ \E g \in Cleaners : GoStore(g)
  \/ \E g \in Cleaners : GoSelect(g)
  \/ \E g \in Cleaners : GoTimer(g)
  \/ \E g \in Cleaners : CleanLock(g)
  \/ \E i \in 1..NumKeys : CleanInspect(i)
  \/ CleanRecurse
  \/ \E g \in Cleaners : CleanUnlock(g)

SpecRead == Init /\ [][NextRead]_vars

(***************************************************************************)
(* The hash table on its own: Put and Delete called directly, next to Set  *)
(* (which calls them with the cache's lock held), under each of the three  *)
(* hash seeds. lastSet is history: the last Put, Delete or Set of each     *)
(* key, a Delete recorded like a Set with a negative TTL.                  *)
(***************************************************************************)
MapKeys == 1..(NumKeys + 1)

MapSeeds == {1, 2, 3}

MapTTLs == {-1, 0}

\* the values the cache instantiates the table with (HashMap[*cacheEntry])
MapValues ==
  {[Value |-> v, Ttl |-> NoExpiration, ExpiresAt |-> NoExpiration] : v \in Values}

InitMap ==
  /\ seed \in MapSeeds
  /\ data = EmptyData
  /\ now = 1
  /\ config = DefaultConfig
  /\ mtx = Free
  /\ isCleanerRunning = FALSE
  /\ stopChan = NilChan
  /\ closed = {}
  /\ panicked = FALSE
  /\ pc = [c \in Callers |-> "idle"]
  /\ arg = [c \in Callers |-> NoArg]
  /\ ret = [c \in Callers |-> NoRet]
  /\ gpc = [g \in Cleaners |-> IF g = 1 THEN "check" ELSE "none"]
  /\ sel = [g \in Cleaners |-> NilChan]
  /\ timer = [g \in Cleaners |-> FALSE]
  /\ clean = NoClean
  /\ lastSet = [k \in MapKeys |-> NoSet]
  /\ calls = "none"

\* HashMap.Put(key, value)
MapPut(key, value) ==
  /\ data' = Put(data, seed, key, value)
  /\ TrackSet(key, value.Value, value.Ttl)
  /\ UNCHANGED <<seed, now, config, mtx, clean>>
  /\ UNCHANGED lifeVars
  /\ UNCHANGED callVars
  /\ UNCHANGED calls

\* HashMap.Delete(key)
MapDelete(key) ==
  /\ data' = Delete(data, seed, key)
  /\ TrackSet(key, NilValue, -1)
  /\ UNCHANGED <<seed, now, config, mtx, clean>>
  /\ UNCHANGED lifeVars
  /\ UNCHANGED callVars
  /\ UNCHANGED calls

NextMap ==
  \/ \E k \in MapKeys, v \in MapValues : MapPut(k, v)
  \/ \E k \in MapKeys : MapDelete(k)
  \/ \E k \in MapKeys, v \in Values, t \in MapTTLs : Set(k, v, t) /\ TrackSet(k, v, t)

SpecMap == InitMap /\ [][NextMap]_vars

(***************************************************************************)
(* Properties of Get and Set. They are stated of every reachable state in  *)
(* which the call can take the lock, by the table the call leaves          *)
(* (SetLeaves) and the value a Get returns on it (GetReturns).             *)
(***************************************************************************)
\* the clock values from t on that the integer width can represent
From(t) == t..MaxDuration

Result(v, ttl) == [value |-> v, ttl |-> ttl]

\* the records of table d stored with key bytes `key`
RecordsOf(d, key) ==
  {GetAll(d)[i] : i \in {j \in 1..Len(GetAll(d)) : GetAll(d)[j].Key = key}}

\* the records of table d stored under the hash of `key`
RecordsAt(d, s, key) ==
  {GetAll(d)[i] : i \in {j \in 1..Len(GetAll(d)) : GetAll(d)[j].HashKey = Sum64(s, key)}}

\* C1. Round trip: in every reachable state, Set(key, value, 0) on a
\* non-nil key leaves a table on which Get(key), run as the next operation
\* at any later time, returns exactly (value, 0).
RoundTrip ==
  \A k \in Keys, v \in Values :
    mtx = Free =>
      \A t \in From(now) :
        GetReturns(SetLeaves(data, seed, now, k, v, NoExpiration), seed, t, k)
          = Result(v, 0)

\* a state Set(key, 2, 0) has produced: the record is stored, the clock has
\* run to its end, the cleaner has finished its cycle, and Get returns (2, 0)
RoundTripWitness ==
  /\ mtx = Free
  /\ now = MaxTime
  /\ gpc[1] = "wait" /\ ~timer[1]
  /\ \E k \in Keys :
       /\ HashMapGet(data, seed, k)
            = [ok |-> TRUE, Value |-> [Value |-> 2, Ttl |-> 0, ExpiresAt |-> NoExpiration]]
       /\ GetReturns(data, seed, now, k) = Result(2, 0)

\* C3. Instant expiry: in every reachable state, Set(key, value, ttl) with
\* ttl < 0 leaves a table with no record for key (neither by key bytes nor
\* under the key's hash), on which Get(key) returns (nil, 0) at any time.
InstantExpiry ==
  \A k \in Keys, v \in Values, ttl \in {x \in TTLs : x < NoExpiration} :
    mtx = Free =>
      LET d2 == SetLeaves(data, seed, now, k, v, ttl)
      IN /\ RecordsOf(d2, k) = {}
         /\ RecordsAt(d2, seed, k) = {}
         /\ \A t \in From(now) : GetReturns(d2, seed, t, k) = emptyValueTTL

\* a state in which one key holds a live record, which the negative-TTL
\* Set removes, and another key holds none
InstantExpiryWitness ==
  /\ mtx = Free
  /\ \E k \in Keys :
       /\ RecordsOf(data, k) # {}
       /\ GetReturns(data, seed, now, k) # emptyValueTTL
       /\ SetLeaves(data, seed, now, k, 1, -1) # data
       /\ RecordsOf(SetLeaves(data, seed, now, k, 1, -1), k) = {}
  /\ \E k \in Keys :
       /\ RecordsAt(data, seed, k) = {}
       /\ SetLeaves(data, seed, now, k, 1, -1) = data

\* C17. Set overwrites wholesale: Set(key, v2, t2) with t2 >= 0 on a key
\* that has a record leaves exactly one record under the key, which is
\* (v2, t2, now + t2) for t2 > 0 and (v2, 0, NoExpiration) for t2 = 0, and
\* adds no record to the table.
SetOverwritesWholesale ==
  \A k \in Keys, v2 \in Values, t2 \in {x \in TTLs : x >= 0} :
    (mtx = Free /\ HashMapGet(data, seed, k).ok) =>
      LET d2 == SetLeaves(data, seed, now, k, v2, t2)
      IN /\ HashMapGet(d2, seed, k).Value
              = [Value |-> v2, Ttl |-> t2,
                 ExpiresAt |-> IF t2 > 0 THEN now + t2 ELSE NoExpiration]
         /\ Cardinality(RecordsAt(d2, seed, k)) = 1
         /\ Len(GetAll(d2)) = Len(GetAll(data))

\* no other key has the hash of key k under the process's seed
AloneInHash(k) == \A k2 \in Keys : k2 # k => Sum64(seed, k2) # Sum64(seed, k)

\* C2. Expiry boundary: when the last Set on key k was Set(k, value, d) with
\* d > 0 at time t0 (and no other key shares k's hash), Get(k) returns
\* (value, d) at every time before t0 + d and (nil, 0) from t0 + d on.
ExpiryBoundary ==
  \A k \in Keys :
    (mtx = Free /\ lastSet[k].ttl > 0 /\ AloneInHash(k)) =>
      GetReturns(data, seed, now, k)
        = IF now < lastSet[k].at + lastSet[k].ttl
            THEN Result(lastSet[k].value, lastSet[k].ttl)
            ELSE emptyValueTTL

\* C5. Last writer wins: Get(k) returns (nil, 0) or the (value, ttl) of the
\* last Set completed on k, and a last Set that does not expire is not lost.
LastWriterWins ==
  \A k \in Keys :
    mtx = Free =>
      /\ GetReturns(data, seed, now, k)
           \in {emptyValueTTL, Result(lastSet[k].value, lastSet[k].ttl)}
      /\ (lastSet[k] # NoSet /\ lastSet[k].ttl = NoExpiration) =>
           GetReturns(data, seed, now, k) = Result(lastSet[k].value, 0)

\* C6. Distinct keys are independent: a Set on k1 (any TTL, negative
\* included) changes neither what Get(k2) returns nor the records stored
\* for k2, for every k2 # k1.
KeysIndependent ==
  \A k1 \in Keys, k2 \in Keys, v \in Values, ttl \in TTLs :
    (mtx = Free /\ k1 # k2) =>
      LET d2 == SetLeaves(data, seed, now, k1, v, ttl)
      IN /\ GetReturns(d2, seed, now, k2) = GetReturns(data, seed, now, k2)
         /\ RecordsOf(d2, k2) = RecordsOf(data, k2)

(***************************************************************************)
(* Properties of the calls in their steps (SpecCall).                      *)
(***************************************************************************)
NilCall(c) == arg[c].op \in {"Get", "Set"} /\ arg[c].key = NilKey

\* C4. Nil key: a Set(nil, value, ttl) and a Get(nil) never wait for the
\* lock and never hold it, whoever holds it meanwhile; the step that enters
\* such a call goes straight to its return and leaves the table unchanged;
\* and the Get(nil) returns (nil, 0).
NilKeySkipsLock ==
  /\ [](\A c \in Callers :
          NilCall(c) =>
            /\ pc[c] = "ret"
            /\ mtx # <<"caller", c>>
            /\ arg[c].op = "Get" => ret[c] = emptyValueTTL)
  /\ [][\A c \in Callers :
          (pc[c] = "idle" /\ NilCall(c)') => (data' = data /\ mtx' = mtx)]_vars

\* a Get(nil) has returned (nil, 0) while a clean cycle holds the lock, and
\* the other caller's Set(nil, 1, 1) has returned with the table still empty
NilKeySkipsLockWitness ==
  /\ mtx = <<"cleaner", 1>>
  /\ pc[1] = "ret" /\ arg[1].op = "Get" /\ arg[1].key = NilKey
  /\ ret[1] = emptyValueTTL
  /\ pc[2] = "ret" /\ arg[2].op = "Set" /\ arg[2].key = NilKey /\ arg[2].ttl = 1
  /\ GetAll(data) = <<>>

(***************************************************************************)
(* Properties of the cleaner's life cycle (SpecLife).                      *)
(***************************************************************************)
\* the goroutines that are inside the loop of StartCleaner (lines 177-184)
InLoop == {g \in Cleaners : gpc[g] \in {"select", "wait", "cleanlock", "clean"}}

\* C9. StartCleaner is idempotent: at most one cleaner loop is active at any
\* time, and the stop signal a running loop waits on is the cache's current
\* stop signal (no later StartCleaner has replaced it).
OneCleanerLoop ==
  /\ Cardinality(InLoop) <= 1
  /\ \A g \in Cleaners : gpc[g] = "wait" => sel[g] = stopChan

\* C10. StopCleaner never fails: no StopCleaner call panics.
StopNeverPanics == ~panicked /\ \A c \in Callers : pc[c] # "panic"

(***************************************************************************)
(* Properties of the sampler (SpecClean). They are stated of the states in *)
(* which defaultClean is running or is about to return (Returns).          *)
(***************************************************************************)
\* isExpired of the specification: expiresAt # NoExpiration and t >= expiresAt
HasExpired(e, t) == e.ExpiresAt # NoExpiration /\ t >= e.ExpiresAt

\* the set of the records of a sequence
RecordSet(q) == {q[i] : i \in 1..Len(q)}

\* C7, as the specification states it. Sampler convergence: when the first
\* pass found more than 25% of its sample expired, then at the return of
\* defaultClean (the clock not having moved meanwhile) the enumeration of
\* the table contains no expired entry.
SamplerConvergence ==
  (Returns(clean) /\ clean.over /\ now = clean.start) =>
    \A r \in RecordSet(GetAll(data)) : ~HasExpired(r.Value, now)

\* C7, as the code has it. When the table held at most KeysAmountByCycle
\* records at the invocation and the first pass found more than 25% of its
\* sample expired, then at the return of defaultClean the enumeration
\* contains no entry that was expired when the sampler was invoked.
SamplerConvergenceWithinSample ==
  (Returns(clean) /\ clean.over /\ Len(clean.before) <= config.KeysAmountByCycle) =>
    \A r \in RecordSet(GetAll(data)) : ~HasExpired(r.Value, clean.start)

\* defaultClean returns from a cascade on a table of exactly
\* KeysAmountByCycle records, of which it removed the expired ones and
\* kept the others
SamplerConvergenceWitness ==
  /\ Returns(clean) /\ clean.over
  /\ Len(clean.before) = config.KeysAmountByCycle
  /\ \E r \in RecordSet(clean.before) : HasExpired(r.Value, clean.start)
  /\ GetAll(data) # <<>>
  /\ Len(GetAll(data)) < Len(clean.before)

\* C8. The sampler only removes expired entries: at every moment of an
\* invocation of defaultClean, every record the table held at the
\* invocation that has not expired by now (a record with ttl = 0 never
\* does) is still in the table with the same value, ttl and expiresAt; and
\* every step of the invocation removes only records that have expired.
SamplerRemovesOnlyExpired ==
  /\ [](clean.st = "pass" =>
          \A r \in RecordSet(clean.before) :
            (r.Value.Ttl = NoExpiration \/ ~HasExpired(r.Value, now)) =>
              r \in RecordSet(GetAll(data)))
  /\ [][clean.st = "pass" =>
          \A r \in RecordSet(GetAll(data)) \ RecordSet(GetAll(data')) :
            HasExpired(r.Value, now)]_vars

\* defaultClean returns from a cascade that removed records, and the table
\* still holds a record that never expires and one with a positive ttl
\* that has not expired
SamplerRemovesOnlyExpiredWitness ==
  /\ Returns(clean) /\ clean.over
  /\ Len(GetAll(data)) < Len(clean.before)
  /\ \E r \in RecordSet(GetAll(data)) : r.Value.Ttl = NoExpiration
  /\ \E r \in RecordSet(GetAll(data)) :
       r.Value.Ttl > NoExpiration /\ ~HasExpired(r.Value, now)

(***************************************************************************)
(* Properties of the running flag and of the loop over time.               *)
(***************************************************************************)
\* C11. Once a StopCleaner call has returned and until StartCleaner is
\* called again, IsCleanerRunning() returns false - also when the
\* StopCleaner call directly follows the construction.
StoppedMeansNotRunning ==
  calls \in {"stop", "signal"} => ~isCleanerRunning

\* C12. Stop eventually takes effect: when a StopCleaner call has signalled
\* a running loop and StartCleaner is not called afterwards, then under
\* fair scheduling the flag is eventually false for good, every cleaner
\* loop has exited and no clean cycle runs any more.
StopTakesEffect ==
  <>[](calls = "signal" /\ ~panicked) =>
    <>[](~isCleanerRunning /\ InLoop = {} /\ clean.st = "off")

\* C13. Periodic cleaning: while a cleaner loop is running and no stop has
\* been signalled, the clean function is invoked again and again under
\* fair scheduling.
CleansAgainAndAgain ==
  <>[](InLoop # {} /\ closed = {} /\ ~panicked) => []<>(clean.st = "pass")

\* C14. Start after stop restarts the cleaner: when StartCleaner has been
\* called after a StopCleaner call returned and no StopCleaner follows,
\* then under fair scheduling the flag is eventually true for good and a
\* clean cycle eventually runs under the lock.
StartAfterStopRestarts ==
  <>[](calls = "restart" /\ ~panicked) =>
    /\ <>[]isCleanerRunning
    /\ <>(clean.st = "pass" /\ mtx[1] = "cleaner")

\* C15. No deadlock: under fair scheduling every Get, Set, StopCleaner and
\* IsCleanerRunning call that has been entered eventually returns.
EveryCallReturns ==
  \A c \in Callers : (pc[c] # "idle") ~> (pc[c] = "idle")

(***************************************************************************)
(* Properties of the construction (SpecConfig).                            *)
(***************************************************************************)
\* C16. Config clamping: construction with the config (i, s) yields the
\* interval i when i >= 50 and 200 otherwise, and the sample size s when
\* s >= 5 and 20 otherwise, each independently of the other; construction
\* with no config yields (200, 20); every constructed cache has an interval
\* of at least 50 and a sample size of at least 5.
ConfigClamping ==
  /\ (\A g \in Cleaners : gpc[g] = "none") =>
       IF config = NilConfig
         THEN ConfigOf(config) = [CleanerInterval |-> 200, KeysAmountByCycle |-> 20]
         ELSE /\ ConfigOf(config).CleanerInterval
                   = IF config.CleanerInterval >= 50 THEN config.CleanerInterval ELSE 200
              /\ ConfigOf(config).KeysAmountByCycle
                   = IF config.KeysAmountByCycle >= 5 THEN config.KeysAmountByCycle ELSE 20
  /\ (\E g \in Cleaners : gpc[g] # "none") =>
       config.CleanerInterval >= 50 /\ config.KeysAmountByCycle >= 5

\* a constructed cache, its goroutine past the check, that holds the
\* default interval next to a sample size of its own
ConfigClampingWitness ==
  /\ gpc[1] = "make"
  /\ config = [CleanerInterval |-> 200, KeysAmountByCycle |-> 6]

(***************************************************************************)
(* Properties of the locking (SpecLock).                                   *)
(***************************************************************************)
\* the callers and the clean cycles that are at their table access
AtTable ==
  {<<"caller", c>> : c \in {x \in Callers : pc[x] = "body"}}
    \cup {<<"cleaner", g>> : g \in {x \in Cleaners : gpc[x] = "clean"}}

\* C18. Mutual exclusion: at most one Get, Set or clean cycle is at its
\* table access, whoever is there holds the lock, a running defaultClean
\* belongs to the clean cycle that holds the lock, and the table changes
\* only in steps taken with the lock held.
MutualExclusion ==
  /\ [](/\ Cardinality(AtTable) <= 1
        /\ \A u \in AtTable : mtx = u
        /\ clean.st = "pass" => mtx[1] = "cleaner" /\ gpc[mtx[2]] = "clean")
  /\ [][data' # data => mtx \in AtTable]_vars

\* two cleaner loops are active, the second one's clean cycle holds the
\* lock on a non-empty table, and both callers wait for the lock
MutualExclusionWitness ==
  /\ gpc[1] \in {"select", "wait", "cleanlock"}
  /\ gpc[2] = "clean" /\ mtx = <<"cleaner", 2>>
  /\ clean.st = "pass" /\ clean.entries # <<>>
  /\ pc[1] = "lock" /\ arg[1].op = "Get"
  /\ pc[2] = "lock" /\ arg[2].op = "Set"

\* C19. Cascade atomicity: from the first pass of a clean cycle to its last
\* the lock stays with that cycle; meanwhile no Get or Set is at its table
\* access or completes its body, and the table changes only by losing
\* records to the sampler.
CascadeAtomic ==
  /\ [](clean.st = "pass" =>
          /\ mtx[1] = "cleaner"
          /\ \A c \in Callers : pc[c] # "body")
  /\ [][(clean.st = "pass" /\ clean'.st = "pass") =>
          /\ mtx' = mtx
          /\ \A c \in Callers : pc'[c] = "ret" => pc[c] \in {"ret", "idle"}
          /\ RecordSet(GetAll(data')) \subseteq RecordSet(GetAll(data))]_vars

\* a clean cycle is in its second pass, having deleted a record in the
\* first, while a Get and a Set wait for the lock
CascadeAtomicWitness ==
  /\ clean.st = "pass" /\ clean.passes = 2
  /\ Len(GetAll(data)) < Len(clean.before)
  /\ mtx[1] = "cleaner"
  /\ pc[1] = "lock" /\ arg[1].op = "Get"
  /\ pc[2] = "lock" /\ arg[2].op = "Set"

(***************************************************************************)
(* Termination of the sampler (SpecClean).                                 *)
(***************************************************************************)
\* C20. Sampler termination: an invocation of defaultClean runs at most as
\* many passes as the table held records at the invocation, plus one; a
\* re-run is entered only after a pass that deleted at least one record,
\* and it enumerates fewer records than the pass before; on an empty table
\* the invocation is at its return at once, with the table still empty.
SamplerTerminates ==
  /\ [](clean.st = "pass" =>
          /\ clean.passes <= Len(clean.before) + 1
          /\ Cardinality(clean.checked) <= clean.sampleSize
          /\ clean.before = <<>> => Returns(clean) /\ GetAll(data) = <<>>)
  /\ [][(clean.st = "pass" /\ clean'.passes > clean.passes) =>
          /\ clean.deleted >= 1
          /\ Len(clean'.entries) < Len(clean.entries)
          /\ Len(clean'.entries) = Len(clean.entries) - clean.deleted]_vars

\* defaultClean returns from its third pass, each of the first two having
\* deleted records, and leaves a non-empty table
SamplerTerminatesWitness ==
  /\ Returns(clean)
  /\ clean.passes = 3
  /\ GetAll(data) # <<>>
  /\ Len(clean.before) >= Len(GetAll(data)) + 2

(***************************************************************************)
(* The passes of the sampler (SpecClean).                                  *)
(***************************************************************************)
\* C21. Cascade threshold: the sampler re-runs only after a pass with
\* floor(deleted * 100 / sampleSize) > 25, and it returns only when the
\* table was empty or after a pass with floor(deleted * 100 / sampleSize)
\* <= 25 - a pass with exactly 25% expired or with nothing expired.
CascadeThreshold ==
  /\ [][(clean.st = "pass" /\ clean'.passes > clean.passes) =>
          /\ clean.sampleSize >= 1
          /\ Cardinality(clean.checked) = clean.sampleSize
          /\ (clean.deleted * 100) \div clean.sampleSize > 25]_vars
  /\ [][(clean.st = "pass" /\ clean'.st = "off") =>
          \/ clean.sampleSize = 0
          \/ /\ Cardinality(clean.checked) = clean.sampleSize
             /\ (clean.deleted * 100) \div clean.sampleSize <= 25]_vars
  /\ [](clean.st = "pass" /\ Cardinality(clean.checked) = clean.sampleSize
          /\ clean.sampleSize >= 1 =>
            /\ (clean.deleted * 100) \div clean.sampleSize > 25 => ~Returns(clean)
            /\ (clean.deleted * 100) \div clean.sampleSize <= 25 => Returns(clean))

\* defaultClean is at its return after a first pass in which exactly 25% of
\* the sample (1 of 4) was expired
CascadeThresholdWitness ==
  /\ Returns(clean)
  /\ clean.passes = 1
  /\ clean.sampleSize = 4 /\ clean.deleted = 1

\* C22. Sample bound: a pass inspects indexes of the enumeration taken at
\* its start, one new index per inspection; the inspected records are
\* pairwise distinct, a finished pass has inspected exactly
\* min(KeysAmountByCycle, number of records) of them, and the records gone
\* from the table are exactly the `deleted` counted ones, at most the
\* sample size.
SampleBound ==
  /\ [](clean.st = "pass" =>
          /\ clean.sampleSize = (IF config.KeysAmountByCycle < Len(clean.entries)
                                   THEN config.KeysAmountByCycle
                                   ELSE Len(clean.entries))
          /\ clean.checked \subseteq 1..Len(clean.entries)
          /\ Cardinality(clean.checked) <= clean.sampleSize
          /\ \A i, j \in clean.checked :
                i # j => clean.entries[i].Key # clean.entries[j].Key
          /\ clean.deleted <= Cardinality(clean.checked)
          /\ Len(GetAll(data)) = Len(clean.entries) - clean.deleted
          /\ (Returns(clean) \/ Recurses(clean)) =>
                Cardinality(clean.checked) = clean.sampleSize)
  /\ [][(clean.st = "pass" /\ clean'.st = "pass"
            /\ clean'.passes = clean.passes /\ clean' # clean) =>
          /\ clean'.entries = clean.entries
          /\ clean'.sampleSize = clean.sampleSize
          /\ \E i \in (1..Len(clean.entries)) \ clean.checked :
                /\ clean'.checked = clean.checked \cup {i}
                /\ clean'.deleted \in {clean.deleted, clean.deleted + 1}
                /\ clean'.deleted = clean.deleted => data' = data]_vars
  /\ [][(clean'.st = "pass" /\ clean'.passes # clean.passes) =>
          /\ clean'.entries = GetAll(data)
          /\ clean'.checked = {} /\ clean'.deleted = 0]_vars

\* a finished pass over a table of more records than the sample size has
\* inspected KeysAmountByCycle records and deleted every one of them
SampleBoundWitness ==
  /\ clean.st = "pass"
  /\ Len(clean.entries) > config.KeysAmountByCycle
  /\ Cardinality(clean.checked) = config.KeysAmountByCycle
  /\ clean.deleted = config.KeysAmountByCycle

(***************************************************************************)
(* Properties of the hash table (SpecMap).                                 *)
(***************************************************************************)
\* the key was stored by a Put or a Set and not deleted since
Live(k) == lastSet[k] # NoSet /\ lastSet[k].ttl >= NoExpiration

\* no other key has the hash of k
AloneInMap(k) == \A k2 \in MapKeys : k2 # k => Sum64(seed, k2) # Sum64(seed, k)

\* C23. Hash-table structure invariant: every stored record lies in the
\* bucket of its key's hash and carries that hash, no key has two records,
\* and get(key) finds a record exactly when the key is live.
HashTableStructure ==
  /\ \A b \in DOMAIN data : \A i \in 1..Len(data[b]) :
        /\ BucketOf(Sum64(seed, data[b][i].Key)) = b
        /\ data[b][i].HashKey = Sum64(seed, data[b][i].Key)
  /\ \A k \in MapKeys :
        Cardinality({j \in 1..Len(GetAll(data)) : GetAll(data)[j].Key = k}) <= 1
  /\ \A k \in MapKeys : HashMapGet(data, seed, k).ok <=> Live(k)

\* C25. Hash-table delete: delete(key) on a present key removes exactly the
\* record of that key, keeps the other records of its bucket in their
\* order and leaves the other buckets alone; delete(key) on an absent key
\* changes nothing; after delete(key), get(key) reports not found.
HashMapDeleteFrame ==
  \A k \in MapKeys :
    LET d2 == Delete(data, seed, k)
        b == BucketOf(Sum64(seed, k))
        Other(r) == r.Key # k
    IN /\ RecordsOf(data, k) # {} =>
            /\ d2[b] = SelectSeq(data[b], Other)
            /\ Len(d2[b]) = Len(data[b]) - 1
            /\ \A c \in DOMAIN data : c # b => d2[c] = data[c]
       /\ RecordsOf(data, k) = {} => d2 = data
       /\ ~HashMapGet(d2, seed, k).ok

\* C26. Hash-table put and enumeration: put(key, v) on a present key
\* replaces the value of its record where it lies, put on an absent key
\* appends one record to the end of the key's bucket, and get(key) then
\* returns (v, true); getAll has one record per live key and is empty for
\* the empty table.
HashMapPutGetAll ==
  /\ \A k \in MapKeys, v \in MapValues :
        LET d2 == Put(data, seed, k, v)
            h == Sum64(seed, k)
            b == BucketOf(h)
        IN /\ RecordsOf(data, k) # {} =>
                /\ Len(GetAll(d2)) = Len(GetAll(data))
                /\ \A c \in DOMAIN data : c # b => d2[c] = data[c]
                /\ Len(d2[b]) = Len(data[b])
                /\ \A i \in 1..Len(data[b]) :
                      d2[b][i] = IF data[b][i].Key = k
                                   THEN [data[b][i] EXCEPT !.Value = v]
                                   ELSE data[b][i]
           /\ RecordsOf(data, k) = {} =>
                /\ Len(GetAll(d2)) = Len(GetAll(data)) + 1
                /\ d2 = [data EXCEPT ![b] =
                           Append(@, [HashKey |-> h, Key |-> k, Value |-> v])]
           /\ HashMapGet(d2, seed, k) = [ok |-> TRUE, Value |-> v]
  /\ Len(GetAll(data)) = Cardinality({k \in MapKeys : Live(k)})
  /\ \A i, j \in 1..Len(GetAll(data)) :
        i # j => GetAll(data)[i].Key # GetAll(data)[j].Key
  /\ GetAll(EmptyData) = <<>>

(***************************************************************************)
(* Properties of the stored entries (SpecHist).                            *)
(***************************************************************************)
\* C24. Entry invariant: every stored record has expiresAt = NoExpiration
\* exactly when ttl = NoExpiration and has ttl >= 0, and its ttl and
\* expiresAt are those of the last Set on its key: expiresAt is the time
\* of that Set plus its ttl, whatever Get calls, clean cycles and clock
\* ticks came after it.
EntryInvariant ==
  \A r \in RecordSet(GetAll(data)) :
    /\ (r.Value.ExpiresAt = NoExpiration) <=> (r.Value.Ttl = NoExpiration)
    /\ r.Value.Ttl >= NoExpiration
    /\ r.Value.Ttl = lastSet[r.Key].ttl
    /\ r.Value.ExpiresAt = (IF lastSet[r.Key].ttl = NoExpiration
                              THEN NoExpiration
                              ELSE lastSet[r.Key].at + lastSet[r.Key].ttl)

(***************************************************************************)
(* Properties of Get in its steps (SpecRead).                              *)
(***************************************************************************)
\* C27. Get is read-only: no step of a Get call changes the table; a Get
\* that finds an expired record returns (nil, 0) and leaves the record in
\* the table and in the enumeration; an expired record leaves the table or
\* changes only in a step of a clean cycle or in the step of a Set on its
\* key.
GetReadOnly ==
  /\ [][\A c \in Callers :
          (pc'[c] # pc[c] /\ arg'[c].op = "Get") => data' = data]_vars
  /\ [][\A c \in Callers :
          (pc[c] = "body" /\ pc'[c] = "ret" /\ arg[c].op = "Get") =>
            \A r \in RecordsAt(data, seed, arg[c].key) :
              HasExpired(r.Value, now) =>
                /\ ret'[c] = emptyValueTTL
                /\ r \in RecordSet(GetAll(data'))]_vars
  /\ [][\A r \in RecordSet(GetAll(data)) :
          (HasExpired(r.Value, now) /\ r \notin RecordSet(GetAll(data'))) =>
            \/ clean.st = "pass" /\ clean' # clean
            \/ \E c \in Callers :
                 /\ pc[c] = "body" /\ pc'[c] = "ret"
                 /\ arg[c].op = "Set" /\ arg[c].key = r.Key]_vars

====
